---- MODULE Spec2Model ----
(***************************************************************************)
(* rs-merkletree: a MerkleTree owning an optional root Node, built from a  *)
(* Vec<&str> by build_tree and queried by root_node, includes, depth,      *)
(* count_leaves, and Node::left_node / Node::right_node.                   *)
(*                                                                         *)
(* Option<T> is modelled as a sequence of length 0 (None) or 1 (Some).     *)
(* SHA-256 followed by result_str().as_bytes() is modelled as an injective *)
(* symbolic function: the digest of a record r is the term <<"L", r>>, the *)
(* digest of the bytes l followed by the bytes r is the term <<"H", l, r>>.*)
(* Digests handed in from outside (seeded nodes, probes) are <<"B", k>>.   *)
(***************************************************************************)
EXTENDS Integers, Sequences, FiniteSets

VARIABLES root_node,     \* MerkleTree.root_node : Option<Box<Node>>
          pc,            \* position of the caller / of build_tree
          data,          \* argument of the build_tree call in progress or last made
          leaves,        \* build_tree local: the flat accumulator Vec<Node>
          upper_layer,   \* build_tree local: the outer binding of upper_layer
          size,          \* build_tree local
          result,        \* outcome of the last query or of a build_tree that panicked
          origin,        \* how the current root came to be: "rootless", "seeded", "built"
          prior,         \* what the last returned build_tree replaced
          fresh_root     \* root of a second tree, new(None), given the same build_tree call

vars == <<root_node, pc, data, leaves, upper_layer, size, result, origin, prior, fresh_root>>

\* ------------------------------------------------------------------ bounds

\* longest record sequence handed to build_tree
MaxRecords == 16
\* record sequences are periodic with period 1..MaxPeriod (period 1: all duplicates)
MaxPeriod == 2
\* number of nodes the accumulator can hold before allocation fails
MaxAlloc == 32

\* ------------------------------------------------------------------ values

None == <<>>
Some(x) == <<x>>

\* Node::new
Node(hash, leftNode, rightNode) ==
  [hash |-> hash, left_node |-> leftNode, right_node |-> rightNode]

\* the record sequence of length n with period p, starting at offset o
Pattern(n, p, o) == [i \in 1..n |-> ((i - 1 + o) % p) + 1]

\* the arguments build_tree is called with
Inputs == {Pattern(n, p, o) : n \in 0..MaxRecords, p \in 1..MaxPeriod, o \in 0..(MaxPeriod - 1)}

\* digests that come from outside the tree
SeedDigests == {<<"B", 1>>, <<"B", 2>>}
ProbeDigests == SeedDigests \cup {<<"B", 0>>, <<"L", 1>>, <<"L", 2>>}

SeedLeaves == {Node(h, None, None) : h \in SeedDigests}
SeedChildren == {None} \cup {Some(x) : x \in SeedLeaves}
SeedLevel2 == {Node(h, l, r) : h \in SeedDigests, l \in SeedChildren, r \in SeedChildren}
SeedLevel3 ==
  {Node(<<"B", 1>>, l, r) :
     l \in {None, Some(Node(<<"B", 2>>, Some(Node(<<"B", 1>>, None, None)), None))},
     r \in {None, Some(Node(<<"B", 2>>, None, Some(Node(<<"B", 0>>, None, None))))}}
\* the roots a caller seeds a tree with through new(Some(root))
SeedNodes == SeedLevel2 \cup SeedLevel3

\* ------------------------------------------------------------------ hashing

hasher_leaf(record) == <<"L", record>>

\* hasher_nodes feeding the right digest before the left one
hasher_nodes_swapped(left_data, right_data) == <<"H", right_data, left_data>>

hasher_nodes(left_data, right_data) == <<"H", left_data, right_data>>

\* ------------------------------------------------------------------ Node

\* Node::left_node: Some(node) => Some(*node.left_node.clone().unwrap())
left_node(self) ==
  IF self.left_node = None
    THEN [panic |-> FALSE, val |-> None]
    ELSE LET node == self.left_node[1] IN
         IF node.left_node = None
           THEN [panic |-> TRUE, val |-> None]
           ELSE [panic |-> FALSE, val |-> Some(node.left_node[1])]

\* Node::right_node: Some(node) => Some(*node.right_node.clone().unwrap())
right_node(self) ==
  IF self.right_node = None
    THEN [panic |-> FALSE, val |-> None]
    ELSE LET node == self.right_node[1] IN
         IF node.right_node = None
           THEN [panic |-> TRUE, val |-> None]
           ELSE [panic |-> FALSE, val |-> Some(node.right_node[1])]

Max(a, b) == IF a >= b THEN a ELSE b

RECURSIVE depth(_)
\* Node::depth
depth(self) ==
  LET left_depth == IF self.left_node = None THEN 0 ELSE depth(self.left_node[1])
      right_depth == IF self.right_node = None THEN 0 ELSE depth(self.right_node[1])
  IN Max(left_depth, right_depth) + 1

\* ------------------------------------------------------------------ construction

RECURSIVE build_leaves_loop(_, _, _)
build_leaves_loop(records, i, ground_layer) ==
  IF i < Len(records)
    THEN build_leaves_loop(records, i + 1,
           Append(ground_layer, Node(hasher_leaf(records[i + 1]), None, None)))
    ELSE ground_layer

\* MerkleTree::build_leaves
build_leaves(records) == build_leaves_loop(records, 0, <<>>)

\* the lone last node attached on both sides of its parent
lone_parent_doubled(nodes, i) ==
  Node(hasher_nodes(nodes[i + 1].hash, nodes[i + 1].hash),
       Some(nodes[i + 1]), Some(nodes[i + 1]))

\* build_upper_layer, the branch i + 1 >= level: the lone last node
lone_parent(nodes, i) ==
  Node(hasher_nodes(nodes[i + 1].hash, nodes[i + 1].hash), Some(nodes[i + 1]), None)

\* build_upper_layer, the branch i + 1 < level: a pair of siblings
pair_parent(nodes, i) ==
  Node(hasher_nodes(nodes[i + 1].hash, nodes[i + 2].hash),
       Some(nodes[i + 1]), Some(nodes[i + 2]))

RECURSIVE build_upper_layer_loop(_, _, _)
build_upper_layer_loop(nodes, i, layer) ==
  IF i < Len(nodes)
    THEN IF i + 1 >= Len(nodes)
           THEN build_upper_layer_loop(nodes, i + 1, Append(layer, lone_parent(nodes, i)))
           ELSE build_upper_layer_loop(nodes, i + 2, Append(layer, pair_parent(nodes, i)))
    ELSE layer

\* MerkleTree::build_upper_layer
build_upper_layer(nodes) == build_upper_layer_loop(nodes, 0, <<>>)

\* MerkleTree::build_root
build_root(leftNode, rightNode) ==
  Node(hasher_nodes(leftNode.hash, rightNode.hash), Some(leftNode), Some(rightNode))

\* a store that keeps a root the tree already has
store_root_if_empty(old, root) == IF old = None THEN Some(root) ELSE old

\* self.root_node = Some(Box::new(root))
store_root(old, root) == Some(root)

\* ------------------------------------------------------------------ queries

\* MerkleTree::root_node
get_root_node(root) == IF root = None THEN None ELSE Some(root[1])

\* MerkleTree::depth: self.root_node().unwrap().depth()
tree_depth(root) ==
  IF get_root_node(root) = None
    THEN [panic |-> TRUE, val |-> 0]
    ELSE [panic |-> FALSE, val |-> depth(get_root_node(root)[1])]

\* count_leaves not descending below a node that has a left child only
count_visit_skip_lone(node, queue, count) ==
  IF node.left_node = None /\ node.right_node = None
    THEN [queue |-> queue, count |-> count + 1]
  ELSE IF node.left_node # None /\ node.right_node # None
    THEN [queue |-> queue \o <<node.right_node[1], node.left_node[1]>>, count |-> count]
  ELSE IF node.left_node # None
    THEN [queue |-> queue, count |-> count]
    ELSE [queue |-> Append(queue, node.right_node[1]), count |-> count]

\* count_leaves, one pass of the while-let body on the popped node
count_visit(node, queue, count) ==
  IF node.left_node = None /\ node.right_node = None
    THEN [queue |-> queue, count |-> count + 1]
  ELSE IF node.left_node # None /\ node.right_node # None
    THEN [queue |-> queue \o <<node.right_node[1], node.left_node[1]>>, count |-> count]
  ELSE IF node.left_node # None
    THEN [queue |-> Append(queue, node.left_node[1]), count |-> count]
    ELSE [queue |-> Append(queue, node.right_node[1]), count |-> count]

RECURSIVE count_leaves_loop(_, _)
count_leaves_loop(data_array, count) ==
  IF Len(data_array) = 0
    THEN count
    ELSE LET next == count_visit(Head(data_array), Tail(data_array), count)
         IN count_leaves_loop(next.queue, next.count)

\* MerkleTree::count_leaves
count_leaves(root) ==
  count_leaves_loop(IF root # None THEN <<root[1]>> ELSE <<>>, 0)

\* includes descending into the left child only
push_children_left_only(data_array, node) ==
  IF node.left_node # None THEN <<node.left_node>> \o data_array ELSE data_array

\* includes, the else branch: push_front the right child, then the left child
push_children(data_array, node) ==
  LET with_right == IF node.right_node # None
                      THEN <<node.right_node>> \o data_array ELSE data_array
  IN IF node.left_node # None THEN <<node.left_node>> \o with_right ELSE with_right

RECURSIVE includes_loop(_, _, _)
\* visited: the digests compared so far, in order (not part of the code's state)
includes_loop(data_array, candidate, visited) ==
  IF Len(data_array) = 0
    THEN [panic |-> FALSE, val |-> FALSE, visited |-> visited]
    ELSE LET element == Head(data_array) IN
         IF element = None
           THEN [panic |-> TRUE, val |-> FALSE, visited |-> visited]
         ELSE IF element[1].hash = candidate
           THEN [panic |-> FALSE, val |-> TRUE, visited |-> Append(visited, element[1].hash)]
           ELSE includes_loop(push_children(Tail(data_array), element[1]), candidate,
                              Append(visited, element[1].hash))

\* MerkleTree::includes
includes(root, candidate) == includes_loop(<<root>>, candidate, <<>>)

\* ------------------------------------------------------------------ state machine

RECURSIVE SubNodes(_)
\* the node itself and every node below it
SubNodes(node) ==
  {node}
    \cup (IF node.left_node = None THEN {} ELSE SubNodes(node.left_node[1]))
    \cup (IF node.right_node = None THEN {} ELSE SubNodes(node.right_node[1]))

\* the nodes a caller can reach from the tree
Nodes(root) == IF root = None THEN {} ELSE SubNodes(root[1])

\* the byte sequences a caller passes to includes
Candidates(root) == ProbeDigests \cup {x.hash : x \in Nodes(root)}

\* the outcome of a call: which operation, whether it panicked, its argument (records
\* of build_tree, candidate of includes, self of a Node method) and its return value
\* (bool of includes, num of depth and count_leaves, node of the Option<Node> getters)
NoResult ==
  [op |-> "none", panic |-> FALSE, records |-> <<>>, candidate |-> <<>>, self |-> None,
   bool |-> FALSE, num |-> 0, node |-> None, visited |-> <<>>]

BuildOutcome(records, panic) ==
  [NoResult EXCEPT !.op = "build_tree", !.panic = panic, !.records = records]

IncludesOutcome(candidate, r) ==
  [NoResult EXCEPT !.op = "includes", !.panic = r.panic, !.candidate = candidate,
                   !.bool = r.val, !.visited = r.visited]

NumOutcome(op, panic, num) ==
  [NoResult EXCEPT !.op = op, !.panic = panic, !.num = num]

NodeOutcome(op, self, r) ==
  [NoResult EXCEPT !.op = op, !.panic = r.panic, !.self = self, !.node = r.val]

\* MerkleTree::new(rootNode)
Init ==
  /\ root_node \in {None} \cup {Some(x) : x \in SeedNodes}
  /\ pc = "new"
  /\ data = <<>>
  /\ leaves = <<>>
  /\ upper_layer = <<>>
  /\ size = 0
  /\ result = NoResult
  /\ origin = IF root_node = None THEN "rootless" ELSE "seeded"
  /\ prior = [origin |-> "none", replaced |-> FALSE]
  /\ fresh_root = None

Callable == pc \in {"new", "returned"}

\* build_tree is entered: the leaves are built (line 258)
BuildTreeCall(records) ==
  /\ Callable
  /\ data' = records
  /\ leaves' = build_leaves(records)
  /\ upper_layer' = <<>>
  /\ size' = 0
  /\ result' = NoResult
  /\ fresh_root' = None
  /\ pc' = "L264"
  /\ UNCHANGED <<root_node, origin, prior>>

\* lines 264-266: the first reduction, appended to the accumulator
FirstReduction ==
  /\ pc = "L264"
  /\ upper_layer' = build_upper_layer(leaves)
  /\ size' = Len(upper_layer')
  /\ leaves' = leaves \o upper_layer'
  /\ pc' = "L269"
  /\ UNCHANGED <<root_node, data, result, origin, prior, fresh_root>>

\* build_tree returns with `root` stored
Return(root) ==
  /\ root_node' = store_root(root_node, root)
  /\ fresh_root' = store_root(fresh_root, root)
  /\ prior' = [origin |-> origin, replaced |-> root_node # None /\ root_node # root_node']
  /\ origin' = "built"
  /\ result' = BuildOutcome(data, FALSE)
  /\ leaves' = <<>>
  /\ upper_layer' = <<>>
  /\ size' = 0
  /\ pc' = "returned"
  /\ UNCHANGED data

\* lines 269-274: a first upper layer of one node is the root
SizeOne ==
  /\ pc = "L269"
  /\ size = 1
  /\ LET root_popped == leaves[Len(leaves)]
     IN Return(Node(root_popped.hash, root_popped.left_node, root_popped.right_node))

SizeNotOne ==
  /\ pc = "L269"
  /\ size # 1
  /\ pc' = "L275"
  /\ UNCHANGED <<root_node, data, leaves, upper_layer, size, result, origin, prior, fresh_root>>

\* lines 275-279: one pass of the while loop; the inner upper_layer shadows the
\* outer one only inside the body, so every pass reduces the outer upper_layer
LoopIter ==
  /\ pc = "L275"
  /\ size > 2
  /\ LET inner_upper_layer == build_upper_layer(upper_layer) IN
       /\ Len(leaves) + Len(inner_upper_layer) <= MaxAlloc
       /\ size' = Len(inner_upper_layer)
       /\ leaves' = leaves \o inner_upper_layer
  /\ UNCHANGED <<root_node, pc, data, upper_layer, result, origin, prior, fresh_root>>

\* leaves.extend cannot allocate: the process aborts
LoopAllocFail ==
  /\ pc = "L275"
  /\ size > 2
  /\ Len(leaves) + Len(build_upper_layer(upper_layer)) > MaxAlloc
  /\ pc' = "aborted"
  /\ result' = BuildOutcome(data, TRUE)
  /\ leaves' = <<>>
  /\ upper_layer' = <<>>
  /\ size' = 0
  /\ UNCHANGED <<root_node, data, origin, prior, fresh_root>>

LoopExit ==
  /\ pc = "L275"
  /\ size <= 2
  /\ pc' = "L280"
  /\ UNCHANGED <<root_node, data, leaves, upper_layer, size, result, origin, prior, fresh_root>>

\* lines 280-290: the root is the parent of the accumulator's last two nodes
BuildRoot ==
  /\ pc = "L280"
  /\ Len(leaves) >= 2
  /\ Return(build_root(leaves[Len(leaves) - 1], leaves[Len(leaves)]))

\* line 281: leaves.len() - 2 on an accumulator of fewer than two nodes panics
\* (subtraction overflow, or the wrapped index out of bounds)
BuildRootPanic ==
  /\ pc = "L280"
  /\ Len(leaves) < 2
  /\ pc' = "panicked"
  /\ result' = BuildOutcome(data, TRUE)
  /\ leaves' = <<>>
  /\ upper_layer' = <<>>
  /\ size' = 0
  /\ UNCHANGED <<root_node, data, origin, prior, fresh_root>>

\* a query returns or panics; it changes nothing of the tree
Query(outcome) ==
  /\ Callable
  /\ result' = outcome
  /\ pc' = IF outcome.panic THEN "panicked" ELSE pc
  /\ UNCHANGED <<root_node, data, leaves, upper_layer, size, origin, prior, fresh_root>>

RootNodeQuery ==
  Query(NodeOutcome("root_node", None, [panic |-> FALSE, val |-> get_root_node(root_node)]))

IncludesQuery(candidate) ==
  Query(IncludesOutcome(candidate, includes(root_node, candidate)))

DepthQuery ==
  LET r == tree_depth(root_node) IN Query(NumOutcome("depth", r.panic, r.val))

CountLeavesQuery == Query(NumOutcome("count_leaves", FALSE, count_leaves(root_node)))

LeftNodeQuery(x) ==
  Query(NodeOutcome("left_node", Some(x), left_node(x)))

RightNodeQuery(x) ==
  Query(NodeOutcome("right_node", Some(x), right_node(x)))

Next ==
  \/ \E records \in Inputs : BuildTreeCall(records)
  \/ FirstReduction
  \/ SizeOne
  \/ SizeNotOne
  \/ LoopIter
  \/ LoopAllocFail
  \/ LoopExit
  \/ BuildRoot
  \/ BuildRootPanic
  \/ RootNodeQuery
  \/ \E candidate \in Candidates(root_node) : IncludesQuery(candidate)
  \/ DepthQuery
  \/ CountLeavesQuery
  \/ \E x \in Nodes(root_node) : LeftNodeQuery(x)
  \/ \E x \in Nodes(root_node) : RightNodeQuery(x)

Spec == Init /\ [][Next]_vars

\* build_tree is synchronous straight-line code: once called it keeps running
FairSpec == Spec /\ WF_vars(Next)

\* ------------------------------------------------------------------ claims

\* the leaf digests L(r_0), ..., L(r_{n-1}) of a record sequence, in input order
LeafDigests(records) == [i \in 1..Len(records) |-> <<"L", records[i]>>]

\* one pairwise reduction of a layer of digests: (d_i, d_{i+1}) -> H(d_i ++ d_{i+1}),
\* a lone last d_i -> H(d_i ++ d_i)
ReduceDigests(ds) ==
  [k \in 1..((Len(ds) + 1) \div 2) |->
     IF 2 * k <= Len(ds) THEN <<"H", ds[2 * k - 1], ds[2 * k]>>
                         ELSE <<"H", ds[2 * k - 1], ds[2 * k - 1]>>]

RECURSIVE RootDigest(_)
\* the digest left when the reduction is repeated until one digest remains
RootDigest(ds) == IF Len(ds) <= 1 THEN ds[1] ELSE RootDigest(ReduceDigests(ds))

RECURSIVE NodeCount(_)
\* the number of node positions at and below a node
NodeCount(node) ==
  1 + (IF node.left_node = None THEN 0 ELSE NodeCount(node.left_node[1]))
    + (IF node.right_node = None THEN 0 ELSE NodeCount(node.right_node[1]))

RECURSIVE Frontier(_)
\* the digests of the childless nodes at and below a node, read left to right
Frontier(node) ==
  IF node.left_node = None /\ node.right_node = None
    THEN <<node.hash>>
    ELSE (IF node.left_node = None THEN <<>> ELSE Frontier(node.left_node[1]))
           \o (IF node.right_node = None THEN <<>> ELSE Frontier(node.right_node[1]))

\* the digest rule of one node
DigestRule(x) ==
  /\ (x.left_node # None /\ x.right_node # None)
       => x.hash = <<"H", x.left_node[1].hash, x.right_node[1].hash>>
  /\ (x.left_node # None /\ x.right_node = None)
       => x.hash = <<"H", x.left_node[1].hash, x.left_node[1].hash>>
  /\ ~(x.left_node = None /\ x.right_node # None)

\* C1: after build_tree returns on n >= 2 records, the root digest is the digest
\* obtained from the leaf digests, in input order, by repeating the pairwise layer
\* reduction until one digest remains; for 4 records [a, b, c, d] it is
\* H(H(L(a) ++ L(b)) ++ H(L(c) ++ L(d))).
C1_RootDigest ==
  (pc = "returned" /\ Len(data) >= 2) =>
    /\ root_node # None
    /\ root_node[1].hash = RootDigest(LeafDigests(data))
    /\ Len(data) = 4 =>
         root_node[1].hash = <<"H", <<"H", <<"L", data[1]>>, <<"L", data[2]>>>>,
                                    <<"H", <<"L", data[3]>>, <<"L", data[4]>>>>>>

\* a build of 5 distinct-neighbour records (two odd layers) has returned with the
\* reduced digest at the root
C1_Witness ==
  /\ pc = "returned"
  /\ Len(data) = 5
  /\ data[1] # data[2]
  /\ root_node # None
  /\ root_node[1].hash = RootDigest(LeafDigests(data))

\* C2: every build_tree call eventually returns, because every pass of the reduction
\* loop leaves a strictly smaller newest layer
C2_Terminates ==
  /\ (pc = "L264") ~> (pc = "returned")
  /\ [][(pc = "L275" /\ pc' = "L275") => size' < size]_vars

\* C3: after build_tree returns on n >= 1 records, count_leaves() equals n
C3_CountLeaves ==
  (pc = "returned" /\ Len(data) >= 1 /\ result.op = "count_leaves") =>
    /\ ~result.panic
    /\ result.num = Len(data)

\* count_leaves has answered 5 on a tree built from 5 records, whose odd layers
\* were padded
C3_Witness ==
  /\ pc = "returned"
  /\ Len(data) = 5
  /\ result.op = "count_leaves"
  /\ result.num = 5

\* C4: on a tree that has a root, includes(candidate) returns true exactly when some
\* node reachable from the root has the candidate as its digest, and it has compared
\* every node before it returns false
C4_Includes ==
  (root_node # None /\ result.op = "includes") =>
    /\ ~result.panic
    /\ result.bool <=> (\E x \in Nodes(root_node) : x.hash = result.candidate)
    /\ ~result.bool => Len(result.visited) = NodeCount(root_node[1])

\* includes has answered true for the digest of the root's right child, an internal
\* node of a tree built from 4 records
C4_Witness ==
  /\ pc = "returned"
  /\ Len(data) = 4
  /\ result.op = "includes"
  /\ result.candidate = root_node[1].right_node[1].hash
  /\ result.bool

\* C5: build_tree on an empty record sequence completes normally and leaves the tree
\* rootless: root_node() is None and count_leaves() is 0
C5_EmptyBuild ==
  (result.op = "build_tree" /\ Len(result.records) = 0) =>
    /\ ~result.panic
    /\ get_root_node(root_node) = None
    /\ count_leaves(root_node) = 0

\* C6: on a tree with no root, includes returns false for every candidate, without
\* aborting
C6_IncludesRootless ==
  (root_node = None /\ result.op = "includes") =>
    /\ ~result.panic
    /\ ~result.bool

\* C7: after build_tree on exactly one record r the root is the leaf: it has no
\* children, its digest is L(r), and depth() returns 1
C7_SingleRecord ==
  (pc = "returned" /\ Len(data) = 1) =>
    /\ root_node # None
    /\ root_node[1].left_node = None
    /\ root_node[1].right_node = None
    /\ root_node[1].hash = <<"L", data[1]>>
    /\ tree_depth(root_node).val = 1

\* C8: the root build_tree leaves depends only on its argument: whatever the tree
\* held before, it is the root the same call leaves in a fresh new(None) tree
C8_BuildIgnoresPrior ==
  pc = "returned" => root_node = fresh_root

\* a build has returned on a tree that had been built before, and replaced a
\* different root
C8_Witness ==
  /\ pc = "returned"
  /\ prior.origin = "built"
  /\ prior.replaced
  /\ root_node = fresh_root

\* C9: left_node() returns None exactly when the node has no left child and otherwise
\* a copy of the left child itself, without aborting; right_node() likewise
C9_ChildAccessors ==
  /\ result.op = "left_node" =>
       (~result.panic /\ result.node = result.self[1].left_node)
  /\ result.op = "right_node" =>
       (~result.panic /\ result.node = result.self[1].right_node)

\* C10: after any sequence of build_tree calls that return, every node reachable from
\* the root obeys the digest rule (two children: H(left ++ right); a left child only:
\* H(left ++ left); never a right child only), and the childless nodes read left to
\* right carry the leaf digests of the input records in input order
C10_DigestInvariant ==
  pc = "returned" =>
    /\ root_node # None
    /\ \A x \in Nodes(root_node) : DigestRule(x)
    /\ Frontier(root_node[1]) = LeafDigests(data)

\* a second build has returned, from 3 records, whose lone third leaf has a parent
\* with a left child only
C10_Witness ==
  /\ pc = "returned"
  /\ prior.origin = "built"
  /\ Len(data) = 3
  /\ root_node[1].right_node[1].right_node = None
  /\ root_node[1].right_node[1].left_node # None

====
